---- MODULE Spec2Model ----
(***************************************************************************)
(* Model of the group scheduler (xdist/scheduler/customgroup.py,           *)
(* class CustomGroup) and of the coordinator's event loop                  *)
(* (xdist/dsession.py, class DSession).                                    *)
(*                                                                         *)
(* The program state is the set of VARIABLES below.  Every handler of the  *)
(* coordinator is an operator from a state record to a state record, so    *)
(* that the nested calls of the source (worker_collectionfinish ->         *)
(* schedule -> _send_tests_group ...) compose sequentially exactly as in   *)
(* the code.  One action of the model is one iteration of the run loop:    *)
(* one event of one worker is taken from the queue, its handler runs, and  *)
(* the tail of loop_once / pytest_runtestloop runs.                        *)
(*                                                                         *)
(* Item indices are 0-based as in the source; sequences are 1-based, so    *)
(* collection[i] of the source is collection[i + 1] here.                  *)
(***************************************************************************)
EXTENDS Integers, Sequences, FiniteSets, TLC

\* ------------------------------------------------------------------ bounds

\* Crash events (worker_errordown through a dying worker) the environment
\* may produce in one run.
MaxCrashes == 3

\* Workers that may end their session early with a stop/fail condition.
MaxStops == 1

\* Internal-error events the workers may post in one run.
MaxErrors == 2

\* --------------------------------------------------------- list helpers

Range(q) == {q[i] : i \in 1..Len(q)}

\* list.remove(x): the list without the first occurrence of x.
RemoveFirst(q, x) ==
    LET i == CHOOSE k \in 1..Len(q) : q[k] = x /\ \A j \in 1..(k - 1) : q[j] # x
    IN  SubSeq(q, 1, i - 1) \o SubSeq(q, i + 1, Len(q))

\* q[:n] and q[n:] of the source.
Take(q, n) == SubSeq(q, 1, IF n < Len(q) THEN n ELSE Len(q))
Drop(q, n) == SubSeq(q, (IF n < Len(q) THEN n ELSE Len(q)) + 1, Len(q))

\* range(n + 1): one index more than the list has items.
PyRange_inclusive(n) == [i \in 1..(n + 1) |-> i - 1]

\* range(n) as a list: 0, 1, ..., n - 1.
PyRange(n) == [i \in 1..n |-> i - 1]

NoDup(q) == \A i, j \in 1..Len(q) : i # j => q[i] # q[j]

\* The list q of numbers in ascending order, with x put in its place.
Insert(q, x) ==
    LET n == Cardinality({i \in 1..Len(q) : q[i] <= x})
    IN  SubSeq(q, 1, n) \o <<x>> \o SubSeq(q, n + 1, Len(q))

\* ------------------------------------------------------ item identifiers

\* An item identifier is the sequence of its tokens: "a@low_4" is
\* <<"a", "@", "low", "_", "4">>, an untagged "a" is <<"a">>.
Tagged(base, name, count) == <<base, "@", name, "_", count>>
Untagged(base) == <<base>>

\* The last position of token t in q, 0 when q holds none.
LastPos(q, t) ==
    IF \E k \in 1..Len(q) : q[k] = t
    THEN CHOOSE k \in 1..Len(q) : q[k] = t /\ \A j \in (k + 1)..Len(q) : q[j] # t
    ELSE 0

\* q.split(t)[-1]: what follows the last t (all of q when it holds no t).
SplitLast(q, t) == SubSeq(q, LastPos(q, t) + 1, Len(q))

DigitValue(d) ==
    CASE d = "0" -> 0 [] d = "1" -> 1 [] d = "2" -> 2 [] d = "3" -> 3
      [] d = "4" -> 4 [] d = "5" -> 5 [] d = "6" -> 6 [] d = "7" -> 7
      [] d = "8" -> 8 [] d = "9" -> 9

\* int(s) of a string of decimal digits.
RECURSIVE ParseInt(_)
ParseInt(q) ==
    IF Len(q) = 0 THEN 0
    ELSE 10 * ParseInt(SubSeq(q, 1, Len(q) - 1)) + DigitValue(q[Len(q)])

DefaultGroup == <<"default">>

\* None where the source holds an item identifier or None.
NoItem == <<"None">>

\* group_mark taking what follows the first "@": test.split('@')[1].
group_mark_first_at(test) ==
    IF "@" \in Range(test)
    THEN LET first == CHOOSE k \in 1..Len(test) :
                         test[k] = "@" /\ \A j \in 1..(k - 1) : test[j] # "@"
             rest == SubSeq(test, first + 1, Len(test))
             stop == IF "@" \in Range(rest)
                     THEN (CHOOSE k \in 1..Len(rest) :
                              rest[k] = "@" /\ \A j \in 1..(k - 1) : rest[j] # "@") - 1
                     ELSE Len(rest)
         IN  SubSeq(rest, 1, stop)
    ELSE DefaultGroup

\* group_mark of customgroup.py lines 291-299.
group_mark(test) ==
    IF "@" \in Range(test) THEN SplitLast(test, "@") ELSE DefaultGroup

\* ------------------------------------------------------------------ state

VARIABLES
    \* CustomGroup
    numnodes,            \* len(parse_spec_config(config))
    node2collection,     \* dict: <<[node, collection], ...>>, first inserted first
    node2pending,        \* ordered dict: <<[node, pending], ...>>
    pending,             \* Global Pending: list of indices
    collection_is_none,  \* self.collection is None
    collection,          \* self.collection (<<>> while it is None)
    dist_groups,         \* dict: group key -> record
    pending_groups,      \* list of group keys
    is_first_time,
    do_resched,
    \* DSession
    shuttingdown,
    countfailures,
    maxfail,
    _active_nodes,
    _failed_nodes_count,
    remake_nodes,
    ready_to_run_tests,
    _max_worker_restart, \* an integer, or -1 for None
    _summary_report,     \* "None" or the kind of summary
    worker_status,       \* dict: gateway id -> "ready" | "collected" | "finished"
    shouldstop,          \* "False" or the reason
    pending_exception,   \* "None" or the reason carried by Interrupted
    loop,                \* where pytest_runtestloop is
    \* the workers (WorkerController handles and the remote processes)
    workers,             \* <<[phase, shutdown_sent, torun, reported, ids], ...>> by gateway id
    \* observations
    ids,                 \* the collection every well-behaved worker reports
    crashitem,           \* what the last remove_node returned (NoItem or an item)
    sendlog,             \* every send_runtest_some: <<[index, node, group], ...>>
    completed,           \* every index reported complete, in index order
    crashlog,            \* every index reported as a crash item, in order
    requeued,            \* every index remove_node put back in Global Pending
    cloned,              \* number of _clone_node calls
    collectreports,      \* number of collection-error reports emitted
    internalerrors,      \* number of pytest_internalerror calls
    exc                  \* "None" or the exception that left the run loop

vars == <<numnodes, node2collection, node2pending, pending, collection_is_none,
          collection, dist_groups, pending_groups, is_first_time, do_resched,
          shuttingdown, countfailures, maxfail, _active_nodes,
          _failed_nodes_count, remake_nodes, ready_to_run_tests,
          _max_worker_restart, _summary_report, worker_status, shouldstop,
          pending_exception, loop, workers, ids, crashitem, sendlog, completed,
          crashlog, requeued, cloned, collectreports, internalerrors, exc>>

\* The state as one record, on which the handlers compute.
State ==
    [numnodes |-> numnodes, node2collection |-> node2collection,
     node2pending |-> node2pending, pending |-> pending,
     collection_is_none |-> collection_is_none, collection |-> collection,
     dist_groups |-> dist_groups, pending_groups |-> pending_groups,
     is_first_time |-> is_first_time, do_resched |-> do_resched,
     shuttingdown |-> shuttingdown, countfailures |-> countfailures,
     maxfail |-> maxfail, _active_nodes |-> _active_nodes,
     _failed_nodes_count |-> _failed_nodes_count, remake_nodes |-> remake_nodes,
     ready_to_run_tests |-> ready_to_run_tests,
     _max_worker_restart |-> _max_worker_restart,
     _summary_report |-> _summary_report, worker_status |-> worker_status,
     shouldstop |-> shouldstop, pending_exception |-> pending_exception,
     loop |-> loop, workers |-> workers, ids |-> ids, crashitem |-> crashitem,
     sendlog |-> sendlog, completed |-> completed, crashlog |-> crashlog,
     requeued |-> requeued,
     cloned |-> cloned, collectreports |-> collectreports,
     internalerrors |-> internalerrors, exc |-> exc]

\* The next state is the record s.
Becomes(s) ==
    /\ numnodes' = s.numnodes
    /\ node2collection' = s.node2collection
    /\ node2pending' = s.node2pending
    /\ pending' = s.pending
    /\ collection_is_none' = s.collection_is_none
    /\ collection' = s.collection
    /\ dist_groups' = s.dist_groups
    /\ pending_groups' = s.pending_groups
    /\ is_first_time' = s.is_first_time
    /\ do_resched' = s.do_resched
    /\ shuttingdown' = s.shuttingdown
    /\ countfailures' = s.countfailures
    /\ maxfail' = s.maxfail
    /\ _active_nodes' = s._active_nodes
    /\ _failed_nodes_count' = s._failed_nodes_count
    /\ remake_nodes' = s.remake_nodes
    /\ ready_to_run_tests' = s.ready_to_run_tests
    /\ _max_worker_restart' = s._max_worker_restart
    /\ _summary_report' = s._summary_report
    /\ worker_status' = s.worker_status
    /\ shouldstop' = s.shouldstop
    /\ pending_exception' = s.pending_exception
    /\ loop' = s.loop
    /\ workers' = s.workers
    /\ ids' = s.ids
    /\ crashitem' = s.crashitem
    /\ sendlog' = s.sendlog
    /\ completed' = s.completed
    /\ crashlog' = s.crashlog
    /\ requeued' = s.requeued
    /\ cloned' = s.cloned
    /\ collectreports' = s.collectreports
    /\ internalerrors' = s.internalerrors
    /\ exc' = s.exc

\* An exception raised in a handler: the statements after it do not run.
Raise(s, e) == IF s.exc = "None" THEN [s EXCEPT !.exc = e] ELSE s
Ok(s) == s.exc = "None"

EmptyDict == [k \in {} |-> 0]

DictSet(d, k, v) == [x \in (DOMAIN d) \cup {k} |-> IF x = k THEN v ELSE d[x]]
DictDel(d, k) == [x \in (DOMAIN d) \ {k} |-> d[x]]

\* ------------------------------------------- WorkerController (the handle)

\* The worker process has ended: it posts no further event.
Down(s, node) == s.workers[node].phase \in {"finished", "stopped", "crashed", "failed"}

\* node.shutting_down
shutting_down(s, node) == s.workers[node].shutdown_sent \/ Down(s, node)

\* node.shutdown(): the shutdown mark is queued behind the items sent so far.
shutdown(s, node) ==
    IF Down(s, node) THEN s
    ELSE [s EXCEPT !.workers[node].shutdown_sent = TRUE]

\* node.send_runtest_some(indices): the worker queues them, unless the
\* shutdown mark is already in its queue (what follows the mark never runs).
send_runtest_some(s, node, indices, key) ==
    LET s1 == [s EXCEPT !.sendlog = @ \o
                 [i \in 1..Len(indices) |->
                    [index |-> indices[i], node |-> node, group |-> key,
                     call |-> Len(s.sendlog)]]]
    IN  IF shutting_down(s, node) THEN s1
        ELSE [s1 EXCEPT !.workers[node].torun = @ \o indices]

\* ------------------------------------------------------------ CustomGroup

\* self.nodes
nodes(s) == [i \in 1..Len(s.node2pending) |-> s.node2pending[i].node]

HasNode(s, node) == \E i \in 1..Len(s.node2pending) : s.node2pending[i].node = node

NodePos(s, node) == CHOOSE i \in 1..Len(s.node2pending) : s.node2pending[i].node = node

\* self.node2pending[node]
PendingOf(s, node) == s.node2pending[NodePos(s, node)].pending

\* collection_is_completed counting only the collections of the workers
\* that are registered now.
collection_is_completed_of_registered(s) ==
    Cardinality({i \in 1..Len(s.node2collection) :
                   \E j \in 1..Len(s.node2pending) :
                      s.node2pending[j].node = s.node2collection[i].node})
      >= s.numnodes

collection_is_completed(s) == Len(s.node2collection) >= s.numnodes

\* tests_finished without the test on Global Pending.
tests_finished_ignores_pending(s) ==
    /\ collection_is_completed(s)
    /\ \A i \in 1..Len(s.node2pending) : ~(Len(s.node2pending[i].pending) >= 2)

tests_finished(s) ==
    /\ collection_is_completed(s)
    /\ s.pending = <<>>
    /\ \A i \in 1..Len(s.node2pending) : ~(Len(s.node2pending[i].pending) >= 2)

has_pending(s) ==
    \/ s.pending # <<>>
    \/ \E i \in 1..Len(s.node2pending) : s.node2pending[i].pending # <<>>

add_node(s, node) ==
    IF HasNode(s, node) THEN Raise(s, "AssertionError")
    ELSE [s EXCEPT !.node2pending = Append(@, [node |-> node, pending |-> <<>>])]

\* self.node2collection[node] = list(collection)
StoreCollection(s, node, col) ==
    IF \E i \in 1..Len(s.node2collection) : s.node2collection[i].node = node
    THEN [s EXCEPT !.node2collection =
            [i \in 1..Len(@) |-> IF @[i].node = node
                                 THEN [node |-> node, collection |-> col]
                                 ELSE @[i]]]
    ELSE \* The source reads the first value, the length and the keys of
         \* this dict, never the order of the later entries: they are kept
         \* in node order.
         LET n == Cardinality({i \in 2..Len(s.node2collection) :
                                 s.node2collection[i].node < node})
             at == IF s.node2collection = <<>> THEN 0 ELSE n + 1
         IN  [s EXCEPT !.node2collection =
                SubSeq(@, 1, at) \o <<[node |-> node, collection |-> col]>>
                \o SubSeq(@, at + 1, Len(@))]

\* add_node_collection without the return after the difference is logged:
\* a late report that differs is stored like any other.
add_node_collection_keeps_late(s, node, col) ==
    IF ~HasNode(s, node) THEN Raise(s, "AssertionError")
    ELSE IF collection_is_completed(s)
    THEN IF s.collection_is_none \/ s.collection = <<>>
         THEN Raise(s, "AssertionError")
         ELSE StoreCollection(s, node, col)
    ELSE StoreCollection(s, node, col)

add_node_collection(s, node, col) ==
    IF ~HasNode(s, node) THEN Raise(s, "AssertionError")
    ELSE IF collection_is_completed(s)
    THEN IF s.collection_is_none \/ s.collection = <<>>
         THEN Raise(s, "AssertionError")
         ELSE IF col # s.collection
              THEN s      \* the difference is logged, the report discarded
              ELSE StoreCollection(s, node, col)
    ELSE StoreCollection(s, node, col)

\* for test_index in tests: self.pending.remove(test_index)
RECURSIVE RemoveEach(_, _)
RemoveEach(q, tests) ==
    IF tests = <<>> THEN q ELSE RemoveEach(RemoveFirst(q, Head(tests)), Tail(tests))

\* _send_tests_group that sends the head of the group's list without
\* deleting it from the list or from Global Pending.
_send_tests_group_no_consume(s, node, num, dist_group_key) ==
    LET tests_per_node == Take(s.dist_groups[dist_group_key].pending_indices, num)
    IN  IF tests_per_node = <<>> THEN s
        ELSE send_runtest_some(
               [s EXCEPT !.node2pending[NodePos(s, node)].pending = @ \o tests_per_node],
               node, tests_per_node, dist_group_key)

_send_tests_group(s, node, num, dist_group_key) ==
    LET tests_per_node == Take(s.dist_groups[dist_group_key].pending_indices, num)
    IN  IF tests_per_node = <<>> THEN s
        ELSE IF \E i \in 1..Len(tests_per_node) : tests_per_node[i] \notin Range(s.pending)
        THEN Raise(s, "ValueError")
        ELSE
          LET \* pending_indices and test_indices are one list object
              s1 == [s EXCEPT
                       !.dist_groups[dist_group_key].pending_indices = Drop(@, num),
                       !.dist_groups[dist_group_key].test_indices = Drop(@, num),
                       !.pending = RemoveEach(@, tests_per_node),
                       !.node2pending[NodePos(s, node)].pending = @ \o tests_per_node]
          IN  send_runtest_some(s1, node, tests_per_node, dist_group_key)

\* The loop with nodes[0] where the source has next(nodes).
RECURSIVE send_loop_no_cycle(_, _, _, _, _)
send_loop_no_cycle(s, cyc, k, j, dist_group_key) ==
    IF j = k \/ ~Ok(s) THEN s
    ELSE IF Len(cyc) = 0 THEN Raise(s, "StopIteration")
    ELSE send_loop_no_cycle(_send_tests_group(s, cyc[1], 1, dist_group_key),
                            cyc, k, j + 1, dist_group_key)

\* for _ in range(k): self._send_tests_group(next(nodes), 1, dist_group_key)
\* where nodes = cycle(cyc); j counts the iterations done.
RECURSIVE send_loop(_, _, _, _, _)
send_loop(s, cyc, k, j, dist_group_key) ==
    IF j = k \/ ~Ok(s) THEN s
    ELSE IF Len(cyc) = 0 THEN Raise(s, "StopIteration")
    ELSE send_loop(_send_tests_group(s, cyc[(j % Len(cyc)) + 1], 1, dist_group_key),
                   cyc, k, j + 1, dist_group_key)

\* dispatch_group cycling over all nodes instead of the first group_workers.
dispatch_group_all_nodes(s) ==
    LET dist_group_key == Head(s.pending_groups)
        s1 == [s EXCEPT !.pending_groups = Tail(@)]
    IN  IF dist_group_key \notin DOMAIN s.dist_groups THEN Raise(s1, "KeyError")
        ELSE
          LET dist_group == s1.dist_groups[dist_group_key]
              cyc == nodes(s1)
              s2 == send_loop(s1, cyc, Len(dist_group.test_indices), 0, dist_group_key)
          IN  IF Ok(s2) THEN [s2 EXCEPT !.dist_groups = DictDel(@, dist_group_key)]
              ELSE s2

\* dispatch_group taking the last pending group: pending_groups.pop().
dispatch_group_pop_last(s) ==
    LET dist_group_key == s.pending_groups[Len(s.pending_groups)]
        s1 == [s EXCEPT !.pending_groups = SubSeq(@, 1, Len(@) - 1)]
    IN  IF dist_group_key \notin DOMAIN s.dist_groups THEN Raise(s1, "KeyError")
        ELSE
          LET dist_group == s1.dist_groups[dist_group_key]
              cyc == Take(nodes(s1), dist_group.group_workers)
              s2 == send_loop(s1, cyc, Len(dist_group.test_indices), 0, dist_group_key)
          IN  IF Ok(s2) THEN [s2 EXCEPT !.dist_groups = DictDel(@, dist_group_key)]
              ELSE s2

\* Pop the next pending group, send its items round-robin over the first
\* group_workers nodes, delete its record.
dispatch_group(s) ==
    LET dist_group_key == Head(s.pending_groups)
        s1 == [s EXCEPT !.pending_groups = Tail(@)]
    IN  IF dist_group_key \notin DOMAIN s.dist_groups THEN Raise(s1, "KeyError")
        ELSE
          LET dist_group == s1.dist_groups[dist_group_key]
              cyc == Take(nodes(s1), dist_group.group_workers)
              s2 == send_loop(s1, cyc, Len(dist_group.test_indices), 0, dist_group_key)
          IN  IF Ok(s2) THEN [s2 EXCEPT !.dist_groups = DictDel(@, dist_group_key)]
              ELSE s2

\* check_schedule without the early return for a node that is shutting
\* down.
check_schedule_ignores_shutdown(s, node, from_dsession) ==
    IF ~Ok(s) THEN s
    ELSE IF s.pending # <<>>
    THEN LET any_working ==
                 \E i \in 1..Len(s.node2pending) :
                     Len(s.node2pending[i].pending) \notin {0, 1}
         IN  IF ~any_working /\ from_dsession /\ s.pending_groups # <<>>
             THEN dispatch_group(s)
             ELSE s
    ELSE shutdown(s, node)

\* check_schedule that dispatches whoever the caller is: the test of
\* from_dsession is dropped.
check_schedule_any_caller(s, node, from_dsession) ==
    IF ~Ok(s) THEN s
    ELSE IF shutting_down(s, node) THEN s
    ELSE IF s.pending # <<>>
    THEN LET any_working ==
                 \E i \in 1..Len(s.node2pending) :
                     Len(s.node2pending[i].pending) \notin {0, 1}
         IN  IF ~any_working /\ s.pending_groups # <<>>
             THEN dispatch_group(s)
             ELSE s
    ELSE shutdown(s, node)

\* check_schedule without the else branch: a node is not shut down when
\* nothing is pending.
check_schedule_no_shutdown(s, node, from_dsession) ==
    IF ~Ok(s) THEN s
    ELSE IF shutting_down(s, node) THEN s
    ELSE IF s.pending # <<>>
    THEN LET any_working ==
                 \E i \in 1..Len(s.node2pending) :
                     Len(s.node2pending[i].pending) \notin {0, 1}
         IN  IF ~any_working /\ from_dsession /\ s.pending_groups # <<>>
             THEN dispatch_group(s)
             ELSE s
    ELSE s

\* check_schedule that does not look for a worker with two or more items.
check_schedule_no_wait(s, node, from_dsession) ==
    IF ~Ok(s) THEN s
    ELSE IF shutting_down(s, node) THEN s
    ELSE IF s.pending # <<>>
    THEN IF from_dsession /\ s.pending_groups # <<>>
         THEN dispatch_group(s)
         ELSE s
    ELSE shutdown(s, node)

check_schedule(s, node, from_dsession) ==
    IF ~Ok(s) THEN s
    ELSE IF shutting_down(s, node) THEN s
    ELSE IF s.pending # <<>>
    THEN LET any_working ==
                 \E i \in 1..Len(s.node2pending) :
                     Len(s.node2pending[i].pending) \notin {0, 1}
         IN  IF ~any_working /\ from_dsession /\ s.pending_groups # <<>>
             THEN dispatch_group(s)
             ELSE s
    ELSE shutdown(s, node)

\* for node in <list>: self.check_schedule(node)
RECURSIVE check_schedule_each(_, _, _)
check_schedule_each(s, list, i) ==
    IF i > Len(list) \/ ~Ok(s) THEN s
    ELSE check_schedule_each(check_schedule(s, list[i], FALSE), list, i + 1)

\* mark_test_complete without self.node2pending[node].remove(item_index).
mark_test_complete_keeps(s, node, item_index) ==
    IF ~HasNode(s, node) THEN Raise(s, "KeyError")
    ELSE IF item_index \notin Range(PendingOf(s, node)) THEN Raise(s, "ValueError")
    ELSE check_schedule(s, node, FALSE)

mark_test_complete(s, node, item_index) ==
    IF ~HasNode(s, node) THEN Raise(s, "KeyError")
    ELSE IF item_index \notin Range(PendingOf(s, node)) THEN Raise(s, "ValueError")
    ELSE check_schedule(
           [s EXCEPT !.node2pending[NodePos(s, node)].pending = RemoveFirst(@, item_index)],
           node, FALSE)

\* self.collection.index(item): the first index that holds item.
IndexOf(col, item) == CHOOSE i \in 0..(Len(col) - 1) :
                         col[i + 1] = item /\ \A j \in 0..(i - 1) : col[j + 1] # item

mark_test_pending(s, item) ==
    IF s.collection_is_none THEN Raise(s, "AssertionError")
    ELSE IF item \notin Range(s.collection) THEN Raise(s, "ValueError")
    ELSE check_schedule_each(
           [s EXCEPT !.pending = <<IndexOf(s.collection, item)>> \o @],
           nodes(s), 1)

\* remove_node without pending.pop(0): the item that was running goes back
\* to Global Pending with the others.
remove_node_requeues_all(s, node) ==
    IF ~HasNode(s, node) THEN Raise(s, "KeyError")
    ELSE
      LET popped == PendingOf(s, node)
          s1 == [s EXCEPT !.node2pending = SelectSeq(@, LAMBDA e : e.node # node)]
      IN  IF popped = <<>> THEN [s1 EXCEPT !.crashitem = NoItem]
          ELSE IF s1.collection_is_none THEN Raise(s1, "AssertionError")
          ELSE
            LET s2 == [s1 EXCEPT !.pending = @ \o popped,
                                 !.crashlog = Append(@, Head(popped)),
                                 !.requeued = @ \o popped]
                s3 == check_schedule_each(s2, nodes(s2), 1)
            IN  [s3 EXCEPT !.crashitem = s.collection[Head(popped) + 1]]

\* The result is left in crashitem.
remove_node(s, node) ==
    IF ~HasNode(s, node) THEN Raise(s, "KeyError")
    ELSE
      LET popped == PendingOf(s, node)
          s1 == [s EXCEPT !.node2pending = SelectSeq(@, LAMBDA e : e.node # node)]
      IN  IF popped = <<>> THEN [s1 EXCEPT !.crashitem = NoItem]
          ELSE IF s1.collection_is_none THEN Raise(s1, "AssertionError")
          ELSE
            LET s2 == [s1 EXCEPT !.pending = @ \o Tail(popped),
                                 !.crashlog = Append(@, Head(popped)),
                                 !.requeued = @ \o Tail(popped)]
                s3 == check_schedule_each(s2, nodes(s2), 1)
            IN  [s3 EXCEPT !.crashitem = s.collection[Head(popped) + 1]]

\* The number of collection-error reports _check_nodes_have_same_collection
\* posts: one per node whose collection differs from the first reporter's.
CollectionDiffs(s) ==
    Cardinality({i \in 2..Len(s.node2collection) :
                   s.node2collection[i].collection # s.node2collection[1].collection})

\* _check_nodes_have_same_collection that never sets same_collection to False.
_check_nodes_have_same_collection_always(s) == TRUE

_check_nodes_have_same_collection(s) == CollectionDiffs(s) = 0

\* build_groups without the fallback to len(self.nodes).
RECURSIVE build_groups_unclamped(_, _, _, _)
build_groups_unclamped(s, i, dg, keys) ==
    IF i = Len(s.collection) THEN [dist_groups |-> dg, keys |-> keys]
    ELSE
      LET test == s.collection[i + 1]
          tagged == "@" \in Range(test)
          mark == group_mark(test)
          group_workers ==
              IF tagged THEN ParseInt(SplitLast(mark, "_")) ELSE Len(s.node2pending)
          existing_tests == IF mark \in DOMAIN dg THEN dg[mark].tests ELSE <<>>
          existing_indices == IF mark \in DOMAIN dg THEN dg[mark].test_indices ELSE <<>>
          rec == [tests |-> Append(existing_tests, test),
                  group_workers |-> group_workers,
                  test_indices |-> Append(existing_indices, i),
                  pending_indices |-> Append(existing_indices, i)]
      IN  build_groups_unclamped(s, i + 1, DictSet(dg, mark, rec),
                                 IF mark \in DOMAIN dg THEN keys ELSE Append(keys, mark))

\* The loop of schedule() that builds the groups, from item i on; dg is the
\* local dist_groups, keys its keys in insertion order.
RECURSIVE build_groups(_, _, _, _)
build_groups(s, i, dg, keys) ==
    IF i = Len(s.collection) THEN [dist_groups |-> dg, keys |-> keys]
    ELSE
      LET test == s.collection[i + 1]
          tagged == "@" \in Range(test)
          mark == group_mark(test)
          declared == ParseInt(SplitLast(mark, "_"))
          available == Len(s.node2pending)
          group_workers ==
              IF tagged
              THEN (IF declared > available THEN available ELSE declared)
              ELSE available
          existing_tests == IF mark \in DOMAIN dg THEN dg[mark].tests ELSE <<>>
          existing_indices == IF mark \in DOMAIN dg THEN dg[mark].test_indices ELSE <<>>
          rec == [tests |-> Append(existing_tests, test),
                  group_workers |-> group_workers,
                  test_indices |-> Append(existing_indices, i),
                  pending_indices |-> Append(existing_indices, i)]
      IN  build_groups(s, i + 1, DictSet(dg, mark, rec),
                       IF mark \in DOMAIN dg THEN keys ELSE Append(keys, mark))

schedule(s) ==
    IF ~Ok(s) THEN s
    ELSE IF ~collection_is_completed(s) THEN Raise(s, "AssertionError")
    ELSE IF ~s.collection_is_none
    THEN check_schedule_each(s, nodes(s), 1)
    ELSE IF ~_check_nodes_have_same_collection(s)
    THEN [s EXCEPT !.collectreports = @ + CollectionDiffs(s)]
    ELSE
      LET col == s.node2collection[1].collection
          s1 == [s EXCEPT !.collection = col, !.collection_is_none = FALSE,
                          !.pending = PyRange(Len(col))]
      IN  IF col = <<>> THEN s1
          ELSE
            LET s2 == IF s1.is_first_time
                      THEN LET built == build_groups(s1, 0, EmptyDict, <<>>)
                           IN  [s1 EXCEPT !.dist_groups = built.dist_groups,
                                          !.pending_groups = built.keys,
                                          !.is_first_time = FALSE]
                      ELSE check_schedule_each(s1, nodes(s1), 1)
            IN  IF ~Ok(s2) \/ s2.pending_groups = <<>> THEN s2
                ELSE dispatch_group(s2)

\* --------------------------------------------------------------- DSession

session_finished(s) == s.shuttingdown /\ s._active_nodes = {}

is_node_finishing(s, node) == HasNode(s, node) /\ Len(PendingOf(s, node)) < 2

are_all_nodes_finishing(s) ==
    \A i \in 1..Len(s.node2pending) : is_node_finishing(s, s.node2pending[i].node)

are_all_nodes_done(s) ==
    \A id \in DOMAIN s.worker_status : s.worker_status[id] = "finished"

are_all_active_nodes_collected(s) ==
    \A n \in s._active_nodes :
        n \in DOMAIN s.worker_status /\ s.worker_status[n] = "collected"

\* for node in self.sched.nodes: if self.is_node_finishing(node): node.shutdown()
RECURSIVE shutdown_finishing(_, _, _)
shutdown_finishing(s, list, i) ==
    IF i > Len(list) THEN s
    ELSE shutdown_finishing(
           IF is_node_finishing(s, list[i]) THEN shutdown(s, list[i]) ELSE s,
           list, i + 1)

\* reset_nodes that marks the pool for recreation but shuts no node down.
reset_nodes_no_shutdown(s) ==
    IF Len(s.pending) # 0 THEN [s EXCEPT !.remake_nodes = TRUE] ELSE s

reset_nodes(s) ==
    LET s1 == IF Len(s.pending) # 0 THEN [s EXCEPT !.remake_nodes = TRUE] ELSE s
    IN  shutdown_finishing(s1, nodes(s1), 1)

\* reset_nodes_if_needed without the test of do_resched.
reset_nodes_if_needed_unguarded(s) ==
    IF ~Ok(s) THEN s
    ELSE IF are_all_nodes_finishing(s) /\ s.ready_to_run_tests
    THEN reset_nodes(s)
    ELSE s

reset_nodes_if_needed(s) ==
    IF ~Ok(s) THEN s
    ELSE IF are_all_nodes_finishing(s) /\ s.ready_to_run_tests /\ ~s.do_resched
    THEN reset_nodes(s)
    ELSE s

reschedule(s) ==
    LET s1 == [s EXCEPT !.do_resched = FALSE]
    IN  IF Len(s1.node2pending) = 0 THEN Raise(s1, "IndexError")
        ELSE check_schedule(s1, nodes(s1)[1], TRUE)

\* nodemanager.setup_nodes / setup_node: n new workers with fresh gateway ids.
NewWorker ==
    [phase |-> "spawned", shutdown_sent |-> FALSE, torun |-> <<>>, reported |-> FALSE,
     ids |-> <<>>]
setup_nodes(s, n) == [s EXCEPT !.workers = @ \o [i \in 1..n |-> NewWorker]]

\* prepare_for_reschedule creating as many workers as the session was
\* configured with, whatever the next group asks for.
prepare_for_reschedule_same_size(s) ==
    LET s1 == [s EXCEPT !.remake_nodes = FALSE]
    IN  IF s1.pending_groups = <<>> THEN Raise(s1, "IndexError")
        ELSE IF s1.pending_groups[1] \notin DOMAIN s1.dist_groups THEN Raise(s1, "KeyError")
        ELSE
          LET num_workers == s1.numnodes
              s2 == setup_nodes(s1, num_workers)
              new_nodes == (Len(s1.workers) + 1)..(Len(s1.workers) + num_workers)
          IN  [s2 EXCEPT !.worker_status = EmptyDict,
                         !._active_nodes = new_nodes,
                         !.node2pending = <<>>,
                         !.do_resched = TRUE]

prepare_for_reschedule(s) ==
    LET s1 == [s EXCEPT !.remake_nodes = FALSE]
    IN  IF s1.pending_groups = <<>> THEN Raise(s1, "IndexError")
        ELSE IF s1.pending_groups[1] \notin DOMAIN s1.dist_groups THEN Raise(s1, "KeyError")
        ELSE
          LET num_workers == s1.dist_groups[s1.pending_groups[1]].group_workers
              s2 == setup_nodes(s1, num_workers)
              new_nodes == (Len(s1.workers) + 1)..(Len(s1.workers) + num_workers)
          IN  [s2 EXCEPT !.worker_status = EmptyDict,
                         !._active_nodes = new_nodes,
                         !.node2pending = <<>>,
                         !.do_resched = TRUE]

update_worker_status(s, node, status) ==
    [s EXCEPT !.worker_status = DictSet(@, node, status)]

\* for node in <list>: node.shutdown()
RECURSIVE shutdown_each(_, _, _)
shutdown_each(s, list, i) ==
    IF i > Len(list) THEN s ELSE shutdown_each(shutdown(s, list[i]), list, i + 1)

triggershutdown(s) ==
    IF ~s.shuttingdown
    THEN shutdown_each([s EXCEPT !.shuttingdown = TRUE], nodes(s), 1)
    ELSE s

\* self._active_nodes.remove(node)
active_remove(s, node) ==
    IF ~Ok(s) THEN s
    ELSE IF node \notin s._active_nodes THEN Raise(s, "KeyError")
    ELSE [s EXCEPT !._active_nodes = @ \ {node}]

_clone_node(s, node) ==
    LET s1 == setup_nodes(s, 1)
    IN  [s1 EXCEPT !._active_nodes = @ \cup {Len(s1.workers)}, !.cloned = @ + 1]

\* worker_workerready registering the worker also while shutting down.
worker_workerready_registers(s, node) ==
    LET s1 == update_worker_status(s, node, "ready")
    IN  IF s1.shuttingdown THEN add_node(shutdown(s1, node), node)
        ELSE add_node(s1, node)

worker_workerready(s, node) ==
    LET s1 == update_worker_status(s, node, "ready")
    IN  IF s1.shuttingdown THEN shutdown(s1, node) ELSE add_node(s1, node)

\* worker_errordown comparing with >= where the source has >.
worker_errordown_off_by_one(s, node) ==
    LET s1 == IF HasNode(s, node) THEN remove_node(s, node) ELSE s
        s2 == [s1 EXCEPT !._failed_nodes_count = @ + 1]
        maximum_reached ==
            s2._max_worker_restart # -1
            /\ s2._failed_nodes_count >= s2._max_worker_restart
        s3 == IF maximum_reached
              THEN triggershutdown(
                     [s2 EXCEPT !._summary_report =
                        IF s2._max_worker_restart = 0
                        THEN "worker crashed and worker restarting disabled"
                        ELSE "maximum crashed workers reached"])
              ELSE _clone_node([s2 EXCEPT !.shuttingdown = FALSE], node)
    IN  IF ~Ok(s1) THEN s1 ELSE active_remove(s3, node)

worker_errordown(s, node) ==
    LET \* try: remove_node; except KeyError: pass; else: handle_crashitem
        s1 == IF HasNode(s, node) THEN remove_node(s, node) ELSE s
        s2 == [s1 EXCEPT !._failed_nodes_count = @ + 1]
        maximum_reached ==
            s2._max_worker_restart # -1
            /\ s2._failed_nodes_count > s2._max_worker_restart
        s3 == IF maximum_reached
              THEN triggershutdown(
                     [s2 EXCEPT !._summary_report =
                        IF s2._max_worker_restart = 0
                        THEN "worker crashed and worker restarting disabled"
                        ELSE "maximum crashed workers reached"])
              ELSE _clone_node([s2 EXCEPT !.shuttingdown = FALSE], node)
    IN  IF ~Ok(s1) THEN s1 ELSE active_remove(s3, node)

\* workeroutput is [exitstatus, shouldfail, shouldstop]; "" stands for a
\* falsy shouldfail / shouldstop.
worker_workerfinished(s, node, workeroutput) ==
    LET s1 == update_worker_status(s, node, "finished")
    IN  IF s1.remake_nodes
        THEN LET s2 == active_remove(s1, node)
             IN  IF Ok(s2) /\ are_all_nodes_done(s2)
                 THEN LET s3 == prepare_for_reschedule(s2)
                      IN  IF Ok(s3) THEN s3
                          ELSE [s3 EXCEPT !.exc = "None",
                                          !.shouldstop = "Exception caught during preparation for rescheduling"]
                 ELSE s2
        ELSE IF workeroutput.exitstatus = 2
        THEN worker_errordown(
               [s1 EXCEPT !.shouldstop = "received keyboard-interrupt"], node)
        ELSE
          LET shouldx == IF workeroutput.shouldfail # "" THEN workeroutput.shouldfail
                         ELSE workeroutput.shouldstop
              s2 == IF shouldx # ""
                    THEN (IF s1.shouldstop = "False"
                          THEN [s1 EXCEPT !.shouldstop = shouldx] ELSE s1)
                    ELSE IF HasNode(s1, node)
                    THEN LET s3 == remove_node(s1, node)
                         IN  IF Ok(s3) /\ s3.crashitem # NoItem
                             THEN Raise(s3, "AssertionError") ELSE s3
                    ELSE s1
          IN  active_remove(s2, node)

worker_internal_error(s, node) ==
    LET s1 == active_remove(s, node)
    IN  IF Ok(s1) THEN [s1 EXCEPT !.internalerrors = @ + 1] ELSE s1

\* worker_collectionfinish without the early return while shutting down.
worker_collectionfinish_while_closing(s, node, col) ==
    LET s1 == update_worker_status(s, node, "collected")
        s2 == add_node_collection(s1, node, col)
    IN  IF ~Ok(s2) \/ ~collection_is_completed(s2) THEN s2
        ELSE IF s2.ready_to_run_tests /\ are_all_active_nodes_collected(s2)
        THEN reset_nodes_if_needed(reschedule(s2))
        ELSE reset_nodes_if_needed(
               schedule([s2 EXCEPT !.ready_to_run_tests = TRUE]))

worker_collectionfinish(s, node, col) ==
    IF s.shuttingdown THEN s
    ELSE
      LET s1 == update_worker_status(s, node, "collected")
          s2 == add_node_collection(s1, node, col)
      IN  IF ~Ok(s2) \/ ~collection_is_completed(s2) THEN s2
          ELSE IF s2.ready_to_run_tests /\ are_all_active_nodes_collected(s2)
          THEN reset_nodes_if_needed(reschedule(s2))
          ELSE reset_nodes_if_needed(
                 schedule([s2 EXCEPT !.ready_to_run_tests = TRUE]))

\* _handlefailures comparing with > where the source has >=.
_handlefailures_off_by_one(s, failed) ==
    IF failed
    THEN LET s1 == [s EXCEPT !.countfailures = @ + 1]
         IN  IF s1.maxfail # 0 /\ s1.countfailures > s1.maxfail
                /\ s1.shouldstop = "False"
             THEN [s1 EXCEPT !.shouldstop = "stopping after failures"]
             ELSE s1
    ELSE s

_handlefailures(s, failed) ==
    IF failed
    THEN LET s1 == [s EXCEPT !.countfailures = @ + 1]
         IN  IF s1.maxfail # 0 /\ s1.countfailures >= s1.maxfail
                /\ s1.shouldstop = "False"
             THEN [s1 EXCEPT !.shouldstop = "stopping after failures"]
             ELSE s1
    ELSE s

worker_testreport(s, node, failed) == _handlefailures(s, failed)

worker_runtest_protocol_complete(s, node, item_index) ==
    LET s1 == mark_test_complete(s, node, item_index)
    IN  IF ~Ok(s1) THEN s1
        ELSE IF are_all_nodes_finishing(s1)
        THEN (IF s1.shouldstop # "False" THEN s1 ELSE reset_nodes(s1))
        ELSE s1

\* After call(**kwargs) in loop_once, then the rest of the iteration of
\* pytest_runtestloop and its loop condition.
loop_once(s) ==
    IF ~Ok(s) THEN [s EXCEPT !.loop = "error"]
    ELSE
      LET s1 == IF tests_finished(s) THEN triggershutdown(s) ELSE s
          s2 == IF s1.shouldstop # "False"
                THEN [triggershutdown(s1) EXCEPT !.pending_exception = s1.shouldstop]
                ELSE s1
      IN  IF session_finished(s2)
          THEN [s2 EXCEPT !.loop = IF s2.pending_exception # "None"
                                   THEN "interrupted" ELSE "returned"]
          ELSE s2

\* ---------------------------------------------------------------- actions

\* The test at the head of loop_once that treats any empty active set as
\* fatal, pool recreation pending or not.
no_active_workers_ignores_remake(s) == s._active_nodes = {}

\* The test at the head of loop_once: no active worker and no pool
\* recreation pending.
no_active_workers(s) == s._active_nodes = {} /\ ~s.remake_nodes

\* loop_once can take an event from the queue.
Polling ==
    /\ loop = "running"
    /\ ~no_active_workers(State)

Alive(w) == workers[w].phase \in {"spawned", "ready", "collected"}

\* The worker can run the item at the head of its queue: it knows what
\* follows it (another item or the shutdown mark).
CanRun(w) ==
    /\ workers[w].phase = "collected"
    /\ workers[w].torun # <<>>
    /\ (Len(workers[w].torun) >= 2 \/ workers[w].shutdown_sent)

WorkerReady(w) ==
    /\ Polling
    /\ workers[w].phase = "spawned"
    /\ Becomes(loop_once(worker_workerready(
           [State EXCEPT !.workers[w].phase = "ready"], w)))

CollectionFinish(w, col) ==
    /\ Polling
    /\ workers[w].phase = "ready"
    /\ Becomes(loop_once(worker_collectionfinish(
           [State EXCEPT !.workers[w].phase = "collected", !.workers[w].ids = col],
           w, col)))

Complete(w) ==
    /\ Polling
    /\ CanRun(w)
    /\ Becomes(loop_once(worker_runtest_protocol_complete(
           [State EXCEPT !.workers[w].torun = Tail(@),
                         !.workers[w].reported = FALSE,
                         !.completed = Insert(@, Head(workers[w].torun))],
           w, Head(workers[w].torun))))

\* The worker posts the report of the item it is running, failed or not.
TestReport(w, failed) ==
    /\ Polling
    /\ CanRun(w)
    /\ ~workers[w].reported
    /\ Becomes(loop_once(worker_testreport(
           [State EXCEPT !.workers[w].reported = TRUE], w, failed)))

GracefulOutput == [exitstatus |-> 0, shouldfail |-> "", shouldstop |-> ""]

Finished(w) ==
    /\ Polling
    /\ workers[w].phase = "collected"
    /\ workers[w].shutdown_sent
    /\ workers[w].torun = <<>>
    /\ Becomes(loop_once(worker_workerfinished(
           [State EXCEPT !.workers[w].phase = "finished"], w, GracefulOutput)))

Crashes == Cardinality({w \in 1..Len(workers) : workers[w].phase = "crashed"})

ErrorDown(w) ==
    /\ Polling
    /\ Alive(w)
    /\ Crashes < MaxCrashes
    /\ Becomes(loop_once(worker_errordown(
           [State EXCEPT !.workers[w].phase = "crashed"], w)))

\* What a worker that ends its session early reports in workeroutput: a
\* keyboard interrupt, a shouldfail reason or a shouldstop reason.
StopOutputs ==
    {[exitstatus |-> 2, shouldfail |-> "", shouldstop |-> ""],
     [exitstatus |-> 1, shouldfail |-> "worker shouldfail", shouldstop |-> ""],
     [exitstatus |-> 0, shouldfail |-> "", shouldstop |-> "worker shouldstop"]}

Stops == Cardinality({w \in 1..Len(workers) : workers[w].phase = "stopped"})

\* The worker leaves its run loop between two items and reports why.
FinishedStop(w, workeroutput) ==
    /\ Polling
    /\ workers[w].phase = "collected"
    /\ Stops < MaxStops
    /\ Becomes(loop_once(worker_workerfinished(
           [State EXCEPT !.workers[w].phase = "stopped"], w, workeroutput)))

\* loop_once finds no active worker and no pool recreation pending.
NoActiveWorkers ==
    /\ loop = "running"
    /\ no_active_workers(State)
    /\ Becomes([triggershutdown(State) EXCEPT !.loop = "error", !.exc = "RuntimeError"])

Errors == Cardinality({w \in 1..Len(workers) : workers[w].phase = "failed"})

\* pytest_internalerror was called on the worker: it posts the event and
\* its session ends.
InternalError(w) ==
    /\ Polling
    /\ Alive(w)
    /\ Errors < MaxErrors
    /\ Becomes(loop_once(worker_internal_error(
           [State EXCEPT !.workers[w].phase = "failed"], w)))

\* ---------------------------------------------------------- initial states

Scenario(n, col, restart, fail) ==
    [numnodes |-> n, ids |-> col, maxworkerrestart |-> restart, maxfail |-> fail]

InitWith(sc) ==
    /\ numnodes = sc.numnodes
    /\ ids = sc.ids
    /\ _max_worker_restart = sc.maxworkerrestart
    /\ maxfail = sc.maxfail
    /\ node2collection = <<>>
    /\ node2pending = <<>>
    /\ pending = <<>>
    /\ collection_is_none = TRUE
    /\ collection = <<>>
    /\ dist_groups = EmptyDict
    /\ pending_groups = <<>>
    /\ is_first_time = TRUE
    /\ do_resched = FALSE
    /\ shuttingdown = FALSE
    /\ countfailures = 0
    /\ _active_nodes = 1..sc.numnodes
    /\ _failed_nodes_count = 0
    /\ remake_nodes = FALSE
    /\ ready_to_run_tests = FALSE
    /\ _summary_report = "None"
    /\ worker_status = EmptyDict
    /\ shouldstop = "False"
    /\ pending_exception = "None"
    /\ loop = "running"
    /\ workers = [i \in 1..sc.numnodes |-> NewWorker]
    /\ crashitem = NoItem
    /\ sendlog = <<>>
    /\ completed = <<>>
    /\ crashlog = <<>>
    /\ requeued = <<>>
    /\ cloned = 0
    /\ collectreports = 0
    /\ internalerrors = 0
    /\ exc = "None"

\* Three items of a one-worker group, then an untagged item.
ColSerial == <<Tagged("a", "g", "1"), Tagged("b", "g", "1"), Tagged("c", "g", "1"),
               Untagged("d")>>

\* Three items of a two-worker group, then one item of a one-worker group.
ColPair == <<Tagged("a", "g", "2"), Tagged("b", "g", "2"), Tagged("c", "g", "2"),
             Tagged("d", "h", "1")>>

\* The scenario of the specification: four items of a four-worker group,
\* two of a two-worker group, two of a one-worker group, two untagged.
ColFour == <<Tagged("a", "low", "4"), Tagged("b", "low", "4"),
             Tagged("c", "low", "4"), Tagged("d", "low", "4"),
             Tagged("e", "med", "2"), Tagged("f", "med", "2"),
             Tagged("g", "high", "1"), Tagged("h", "high", "1"),
             Untagged("i"), Untagged("j")>>

CrashScenarios ==
    {Scenario(2, col, r, 0) : col \in {ColSerial, ColPair}, r \in {0, 2}}

Init == \E sc \in CrashScenarios : InitWith(sc)

Next ==
    \/ \E w \in 1..Len(workers) : WorkerReady(w)
    \/ \E w \in 1..Len(workers) : CollectionFinish(w, ids)
    \/ \E w \in 1..Len(workers) : Complete(w)
    \/ \E w \in 1..Len(workers) : Finished(w)
    \/ \E w \in 1..Len(workers) : ErrorDown(w)

Spec == Init /\ [][Next]_vars

\* Crashes and workers that stop early.
NextStop ==
    \/ \E w \in 1..Len(workers) : WorkerReady(w)
    \/ \E w \in 1..Len(workers) : CollectionFinish(w, ids)
    \/ \E w \in 1..Len(workers) : Complete(w)
    \/ \E w \in 1..Len(workers) : Finished(w)
    \/ \E w \in 1..Len(workers) : ErrorDown(w)
    \/ \E w \in 1..Len(workers) : \E o \in StopOutputs : FinishedStop(w, o)

SpecStop == Init /\ [][NextStop]_vars

\* No worker crashes or stops early.
QuietScenarios ==
    {Scenario(4, ColFour, 2, 0), Scenario(2, ColPair, 2, 0), Scenario(2, ColSerial, 2, 0)}

InitQuiet == \E sc \in QuietScenarios : InitWith(sc)

NextQuiet ==
    \/ \E w \in 1..Len(workers) : WorkerReady(w)
    \/ \E w \in 1..Len(workers) : CollectionFinish(w, ids)
    \/ \E w \in 1..Len(workers) : Complete(w)
    \/ \E w \in 1..Len(workers) : Finished(w)

SpecQuiet == InitQuiet /\ [][NextQuiet]_vars

\* The same with two and three workers; every event a worker posts is
\* eventually taken from the queue by the loop.
ColTrio == <<Tagged("a", "g", "3"), Tagged("b", "g", "3"), Tagged("c", "g", "3"),
             Tagged("d", "g", "3"), Tagged("e", "h", "2"), Untagged("f")>>

LiveScenarios ==
    {Scenario(3, ColTrio, 2, 0), Scenario(2, ColPair, 2, 0), Scenario(2, ColSerial, 2, 0)}

InitLive == \E sc \in LiveScenarios : InitWith(sc)

\* Some worker process has an event to post and the loop is polling: the
\* disjunction of the guards of the actions of NextQuiet, each of which
\* changes the worker's record.
EventPending ==
    /\ Polling
    /\ \E w \in 1..Len(workers) :
          \/ workers[w].phase \in {"spawned", "ready"}
          \/ CanRun(w)
          \/ workers[w].phase = "collected" /\ workers[w].shutdown_sent
                /\ workers[w].torun = <<>>

\* WF_vars(NextQuiet), with ENABLED <<NextQuiet>>_vars written out as
\* EventPending.
FairQuiet == []<>(~EventPending) \/ []<><<NextQuiet>>_vars

SpecLive == InitLive /\ [][NextQuiet]_vars /\ FairQuiet

\* Workers that may report a collection other than ids: one item more, or
\* no item at all.  The collection ids itself may be empty.
Reports(col) == {col, Append(col, Untagged("z")), <<>>}

ColDuo == <<Tagged("a", "g", "1"), Tagged("b", "g", "1"), Untagged("c")>>

CollectScenarios ==
    {Scenario(3, ColDuo, 0, 0), Scenario(2, ColDuo, 1, 0), Scenario(2, <<>>, 1, 0)}

InitCollect == \E sc \in CollectScenarios : InitWith(sc)

NextCollect ==
    \/ \E w \in 1..Len(workers) : WorkerReady(w)
    \/ \E w \in 1..Len(workers) : \E col \in Reports(ids) : CollectionFinish(w, col)
    \/ \E w \in 1..Len(workers) : Complete(w)
    \/ \E w \in 1..Len(workers) : Finished(w)
    \/ \E w \in 1..Len(workers) : ErrorDown(w)

SpecCollect == InitCollect /\ [][NextCollect]_vars

\* Crashes, with a collection whose last group has two items for one worker.
ColTail == <<Tagged("a", "g", "1"), Tagged("b", "g", "1")>>

TailScenarios == {Scenario(2, ColTail, 2, 0), Scenario(2, ColSerial, 2, 0)}

InitTail == \E sc \in TailScenarios : InitWith(sc)

SpecTail == InitTail /\ [][Next]_vars

\* Crashes, with a group that declares more workers than the session has:
\* one item of a one-worker group, three of a three-worker group, one
\* untagged, for two workers.
ColWide == <<Tagged("a", "g", "1"), Tagged("b", "h", "3"), Tagged("c", "h", "3"),
             Tagged("d", "h", "3"), Untagged("e")>>

\* An item whose identifier holds two "@", one more item of the same
\* group, and an untagged item.
ColNested == <<<<"a", "@", "x", "_", "1", "@", "g", "_", "2">>, Tagged("b", "g", "2"),
               Untagged("c")>>

GroupScenarios ==
    {Scenario(2, ColWide, 1, 0), Scenario(2, ColWide, 0, 0), Scenario(2, ColNested, 0, 0)}

InitGroups == \E sc \in GroupScenarios : InitWith(sc)

SpecGroups == InitGroups /\ [][Next]_vars

\* Crashes and internal errors.
NextError ==
    \/ \E w \in 1..Len(workers) : WorkerReady(w)
    \/ \E w \in 1..Len(workers) : CollectionFinish(w, ids)
    \/ \E w \in 1..Len(workers) : Complete(w)
    \/ \E w \in 1..Len(workers) : Finished(w)
    \/ \E w \in 1..Len(workers) : ErrorDown(w)
    \/ \E w \in 1..Len(workers) : InternalError(w)
    \/ NoActiveWorkers

SpecError == Init /\ [][NextError]_vars

\* Crashes and item reports, with a limit on the failures.
FailScenarios == {Scenario(2, ColSerial, 1, 1), Scenario(2, ColPair, 0, 2)}

InitFail == \E sc \in FailScenarios : InitWith(sc)

NextFail ==
    \/ \E w \in 1..Len(workers) : WorkerReady(w)
    \/ \E w \in 1..Len(workers) : CollectionFinish(w, ids)
    \/ \E w \in 1..Len(workers) : \E failed \in BOOLEAN : TestReport(w, failed)
    \/ \E w \in 1..Len(workers) : Complete(w)
    \/ \E w \in 1..Len(workers) : Finished(w)
    \/ \E w \in 1..Len(workers) : ErrorDown(w)

SpecFail == InitFail /\ [][NextFail]_vars

\* Item reports with a limit on the failures, crashes, and workers that stop
\* early.
NextHalt ==
    \/ \E w \in 1..Len(workers) : WorkerReady(w)
    \/ \E w \in 1..Len(workers) : CollectionFinish(w, ids)
    \/ \E w \in 1..Len(workers) : \E failed \in BOOLEAN : TestReport(w, failed)
    \/ \E w \in 1..Len(workers) : Complete(w)
    \/ \E w \in 1..Len(workers) : Finished(w)
    \/ \E w \in 1..Len(workers) : ErrorDown(w)
    \/ \E w \in 1..Len(workers) : \E o \in StopOutputs : FinishedStop(w, o)

SpecHalt == InitFail /\ [][NextHalt]_vars

\* ------------------------------------------------------------- properties

\* The number of times x occurs in the list q.
Count(q, x) == Cardinality({i \in 1..Len(q) : q[i] = x})

RECURSIVE Flatten(_)
Flatten(qs) == IF qs = <<>> THEN <<>> ELSE Head(qs) \o Flatten(Tail(qs))

AllIndices == 0..(Len(collection) - 1)

\* The in-flight lists of all registered workers, one after the other.
InFlight == Flatten([i \in 1..Len(node2pending) |-> node2pending[i].pending])

\* The remaining indices of all groups not yet dispatched.
GroupRemaining ==
    Flatten([i \in 1..Len(pending_groups) |->
               IF pending_groups[i] \in DOMAIN dist_groups
               THEN dist_groups[pending_groups[i]].pending_indices ELSE <<>>])

\* Indices reported complete or reported as a crash item.
Gone == Range(completed) \cup Range(crashlog)

FirstDispatchDone == sendlog # <<>>

\* C1: after the first dispatch each index that is neither complete nor
\* crash-reported occurs exactly once in Global Pending and the in-flight
\* lists of the registered workers taken together, every other index occurs
\* in neither, and the remaining indices of the groups not yet dispatched
\* are indices of Global Pending, each listed once.
C1_Conservation ==
    FirstDispatchDone =>
        /\ \A x \in AllIndices :
              Count(pending, x) + Count(InFlight, x) = IF x \in Gone THEN 0 ELSE 1
        /\ Range(pending) \cup Range(InFlight) \subseteq AllIndices
        /\ \A x \in Range(GroupRemaining) :
              Count(GroupRemaining, x) = 1 /\ Count(pending, x) = 1

\* The group of the item with index x.
GroupOf(x) == group_mark(collection[x + 1])

\* The indices sent so far, in the order sent.
SentIndices == [k \in 1..Len(sendlog) |-> sendlog[k].index]

\* Node w goes down in this step while registered with the scheduler.
CrashOfRegistered(w) ==
    /\ workers[w].phase # "crashed"
    /\ workers'[w].phase = "crashed"
    /\ HasNode(State, w)

\* C2: when a registered worker with in-flight list [i, j, k] crashes,
\* remove_node returns collection[i] as the crash item, the worker is no
\* longer registered, and Global Pending is what it was followed by j, k in
\* that order; with an empty in-flight list there is no crash item and
\* Global Pending is unchanged.
C2_RemoveNode ==
    [][\A w \in 1..Len(workers) :
         CrashOfRegistered(w) =>
           LET popped == PendingOf(State, w)
           IN  /\ \A i \in 1..Len(node2pending') : node2pending'[i].node # w
               /\ IF popped = <<>>
                  THEN crashitem' = NoItem /\ pending' = pending
                  ELSE /\ crashitem' = collection[Head(popped) + 1]
                       /\ pending' = pending \o Tail(popped)]_vars

\* A worker crashed with three items in flight: the first is the crash
\* item, the other two are the end of Global Pending.
C2_Witness ==
    /\ Len(crashlog) = 1
    /\ Len(requeued) = 2
    /\ crashitem = collection[crashlog[1] + 1]
    /\ Len(pending) >= 2
    /\ Drop(pending, Len(pending) - 2) = requeued

\* No worker process is left that could post an event.
Quiescent == \A w \in 1..Len(workers) : ~Alive(w)

BudgetLeft == _max_worker_restart = -1 \/ _failed_nodes_count <= _max_worker_restart

\* C3: an index that a crash put back in Global Pending is sent again; so
\* when nothing can happen any more, the restart budget is not exhausted and
\* no stop reason is recorded, no index sent before is still in Global
\* Pending.
C3_RequeuedSentAgain ==
    (Quiescent /\ BudgetLeft /\ shouldstop = "False") =>
        \A x \in Range(pending) : Count(SentIndices, x) = 0

\* The registered workers that hold an in-flight item of group g.
HoldersOf(g) ==
    {node2pending[i].node : i \in {j \in 1..Len(node2pending) :
        \E x \in Range(node2pending[j].pending) : GroupOf(x) = g}}

TaggedGroups == {group_mark(collection[i]) : i \in {j \in 1..Len(collection) :
                    "@" \in Range(collection[j])}}

\* C4: the in-flight items of a group with declared worker count N are on
\* at most N distinct registered workers.
C4_GroupWorkerLimit ==
    \A g \in TaggedGroups :
        Cardinality(HoldersOf(g)) <= ParseInt(SplitLast(g, "_"))

\* After a crash and its replacement, a one-worker group has two or more
\* items in flight on one worker while another worker is registered.
C4_Witness ==
    /\ cloned >= 1
    /\ Len(node2pending) >= 2
    /\ \E i \in 1..Len(node2pending) :
          /\ Len(node2pending[i].pending) >= 2
          /\ \A x \in Range(node2pending[i].pending) :
                ParseInt(SplitLast(GroupOf(x), "_")) = 1 /\ GroupOf(x) \in TaggedGroups

\* C5: a step that sends items leaves from a state where no registered
\* worker holds two or more in-flight items.
C5_NoDispatchWhileBusy ==
    [][Len(sendlog') > Len(sendlog) =>
          \A i \in 1..Len(node2pending) : Len(node2pending[i].pending) <= 1]_vars

\* A group was dispatched while a worker held its last item of the group
\* before: that worker has items of two groups in flight.
C5_Witness ==
    \E i \in 1..Len(node2pending) :
        \E x, y \in Range(node2pending[i].pending) : GroupOf(x) # GroupOf(y)

\* C6: a step that sends the items of a group leaves from a state where no
\* item (of a group dispatched before) is in flight on any worker.
C6_EarlierGroupsDone ==
    [][Len(sendlog') > Len(sendlog) => InFlight = <<>>]_vars

\* C7: without crashes and stop conditions, and with identical collections,
\* every run reaches the state where the loop has returned, every index has
\* been sent once and every index has been completed once.
C7_AllItemsRun ==
    <>(/\ loop = "returned"
       /\ completed = PyRange(Len(ids))
       /\ \A x \in AllIndices : Count(SentIndices, x) = 1)

\* The loop has returned after the pool was recreated at least once and all
\* items of the collection were completed.
C7_Witness ==
    /\ loop = "returned"
    /\ Len(workers) > numnodes
    /\ Len(completed) = Len(ids)
    /\ Len(ids) > 0

\* The group marks of the list col of items, each once, first seen first.
RECURSIVE FirstSeen(_, _)
FirstSeen(col, acc) ==
    IF col = <<>> THEN acc
    ELSE FirstSeen(Tail(col),
                   IF group_mark(Head(col)) \in Range(acc) THEN acc
                   ELSE Append(acc, group_mark(Head(col))))

\* The list q with each run of equal neighbours reduced to one element.
RECURSIVE Runs(_)
Runs(q) ==
    IF Len(q) <= 1 THEN q
    ELSE IF q[1] = q[2] THEN Runs(Tail(q))
    ELSE <<Head(q)>> \o Runs(Tail(q))

\* The groups in the order their items were sent.
DispatchOrder(log) == Runs([k \in 1..Len(log) |-> log[k].group])

IsPrefix(p, q) == Len(p) <= Len(q) /\ SubSeq(q, 1, Len(p)) = p

FourOrder == <<<<"low", "_", "4">>, <<"med", "_", "2">>, <<"high", "_", "1">>,
               DefaultGroup>>

\* C8: the groups whose items have been sent are, in the order sent, the
\* first groups of the collection in first-seen order, each once; a step
\* sends the items of at most one group; and the run of the collection
\* [a,b,c,d]@low_4, [e,f]@med_2, [g,h]@high_1, [i,j] with four workers ends
\* having dispatched low_4, med_2, high_1, default in that order.
C8_DispatchOrder ==
    /\ [](~collection_is_none =>
            IsPrefix(DispatchOrder(sendlog), FirstSeen(collection, <<>>)))
    /\ [][Len(DispatchOrder(sendlog')) <= Len(DispatchOrder(sendlog)) + 1]_vars
    /\ []((ids = ColFour /\ numnodes = 4 /\ loop = "returned") =>
            DispatchOrder(sendlog) = FourOrder)

\* The four groups of the four-worker scenario have been dispatched.
C8_Witness ==
    /\ ids = ColFour
    /\ numnodes = 4
    /\ DispatchOrder(sendlog) = FourOrder

\* C9: an index is sent at most once plus once for each crash that put it
\* back in Global Pending, and a step sends no index that is in flight or
\* complete.
C9_SentOnce ==
    /\ [](\A x \in AllIndices : Count(SentIndices, x) <= 1 + Count(requeued, x))
    /\ [][\A k \in (Len(sendlog) + 1)..Len(sendlog') :
             /\ sendlog'[k].index \notin Range(InFlight)
             /\ sendlog'[k].index \notin Range(completed)]_vars

\* An index that was sent is back in Global Pending after a crash, while
\* another index is complete.
C9_Witness ==
    /\ completed # <<>>
    /\ \E x \in Range(requeued) : x \in Range(pending) /\ Count(SentIndices, x) = 1

Min(a, b) == IF a < b THEN a ELSE b

\* C10: with a restart budget M the session has created min(crashes, M)
\* clones, and once more than M workers have crashed the summary reason is
\* recorded and the session is shutting down.
C10_RestartBudget ==
    _max_worker_restart # -1 =>
        /\ cloned = Min(_failed_nodes_count, _max_worker_restart)
        /\ _failed_nodes_count > _max_worker_restart =>
              _summary_report # "None" /\ shuttingdown

\* The third crash under a budget of two: two clones, the reason recorded.
C10_Witness ==
    /\ _max_worker_restart = 2
    /\ _failed_nodes_count = 3
    /\ cloned = 2
    /\ _summary_report = "maximum crashed workers reached"
    /\ shuttingdown

\* C11: the run loop eventually exits; so when no worker process is left
\* to post an event, the loop has exited or is about to raise the fatal
\* no-workers error (no active worker and no pool recreation pending).
C11_LoopExits ==
    Quiescent => (loop # "running" \/ (_active_nodes = {} /\ ~remake_nodes))

\* The list of the first worker that reported a collection.
FirstReport == node2collection[1].collection

\* C12: when the reports that complete the collection differ, schedule()
\* has posted one collection error for each worker whose list differs from
\* the first reporter's, no collection is finalized and nothing is pending
\* or sent; a finalized collection is the first reporter's list, every
\* stored list equals it, and every index pending or sent is an index of it.
C12_CollectionAgreement ==
    /\ (collection_is_completed(State) /\ CollectionDiffs(State) > 0) =>
          /\ collectreports = CollectionDiffs(State)
          /\ collection_is_none
    /\ collection_is_none => (pending = <<>> /\ sendlog = <<>>)
    /\ ~collection_is_none =>
          /\ collection = FirstReport
          /\ CollectionDiffs(State) = 0
          /\ collectreports = 0
          /\ Range(pending) \cup Range(SentIndices) \subseteq 0..(Len(FirstReport) - 1)

\* Three workers reported, the second and the third each a list other than
\* the first reporter's: two collection errors, no collection.
C12_Witness ==
    /\ Len(node2collection) = 3
    /\ collectreports = 2
    /\ collection_is_none
    /\ sendlog = <<>>

\* Worker w is about to post a collection that add_node_collection will
\* compare with the finalized one.
LateReport(w, col) ==
    /\ workers[w].phase = "ready"
    /\ ~shuttingdown
    /\ collection_is_completed(State)
    /\ (collection_is_none \/ col # collection)

Scheduled(s) ==
    <<s.pending, s.node2pending, s.dist_groups, s.pending_groups, s.sendlog,
      [w \in 1..Len(s.workers) |-> s.workers[w].torun]>>

\* What check_schedule promises when called for node in state s with
\* Global Pending empty: nothing is sent, Global Pending, the in-flight
\* lists and the groups stay as they are, a node holding no in-flight item
\* is shutting down afterwards, a second call (for this node, or for every
\* node) changes nothing more, and a call for a node that is shutting down
\* changes nothing.
IdleContract(s, node, from_dsession) ==
    LET s1 == check_schedule(s, node, from_dsession)
        all == check_schedule_each(s1, nodes(s1), 1)
    IN  /\ Ok(s1)
        /\ Scheduled(s1) = Scheduled(s)
        /\ PendingOf(s, node) = <<>> => shutting_down(s1, node)
        /\ check_schedule(s1, node, from_dsession) = s1
        /\ Scheduled(all) = Scheduled(s)
        /\ check_schedule_each(all, nodes(all), 1) = all
        /\ shutting_down(s, node) => s1 = s

\* The state in which mark_test_complete calls check_schedule when worker w
\* reports the item at the head of its queue complete.
CompleteCall(w) ==
    [State EXCEPT !.workers[w].torun = Tail(@),
                  !.node2pending[NodePos(State, w)].pending =
                      RemoveFirst(@, Head(workers[w].torun))]

\* The state in which remove_node calls check_schedule for the remaining
\* nodes when worker w goes down with items in flight.
RemoveCall(w) ==
    [State EXCEPT !.workers[w].phase = "crashed",
                  !.node2pending = SelectSeq(@, LAMBDA e : e.node # w),
                  !.pending = @ \o Tail(PendingOf(State, w))]

\* C14: with Global Pending empty, check_schedule for a registered worker,
\* from the coordinator or not, sends nothing and leaves Global Pending,
\* the in-flight lists and the groups as they were; a worker holding no
\* in-flight item is told to shut down; calling it again changes nothing,
\* and a call for a worker that is shutting down changes nothing.  This
\* holds between events and where mark_test_complete and remove_node call
\* it.
C14_CheckScheduleIdle ==
    /\ pending = <<>> =>
          \A i \in 1..Len(node2pending) : \A from_dsession \in BOOLEAN :
              IdleContract(State, node2pending[i].node, from_dsession)
    /\ \A w \in 1..Len(workers) :
          (CanRun(w) /\ HasNode(State, w) /\ pending = <<>>
             /\ Head(workers[w].torun) \in Range(PendingOf(State, w))) =>
              IdleContract(CompleteCall(w), w, FALSE)
    /\ \A w \in 1..Len(workers) :
          (Alive(w) /\ HasNode(State, w) /\ pending = <<>>
             /\ Len(PendingOf(State, w)) = 1) =>
              \A n \in Range(nodes(RemoveCall(w))) :
                  IdleContract(RemoveCall(w), n, FALSE)

\* Items have been sent, Global Pending is empty, and check_schedule tells a
\* registered worker that holds no item and is not shutting down to shut
\* down.
C14_Witness ==
    /\ pending = <<>>
    /\ sendlog # <<>>
    /\ \E i \in 1..Len(node2pending) :
          /\ node2pending[i].pending = <<>>
          /\ ~shutting_down(State, node2pending[i].node)
          /\ shutting_down(check_schedule(State, node2pending[i].node, FALSE),
                           node2pending[i].node)

\* C15: from a state in which a stop reason is recorded and shutdown has
\* been triggered, a step sends no item, and no worker's queue of items
\* changes except by the worker running the item at its head.
C15_NoSendAfterStop ==
    [][(shouldstop # "False" /\ shuttingdown) =>
          /\ sendlog' = sendlog
          /\ \A w \in 1..Len(workers) :
                \/ workers'[w].torun = workers[w].torun
                \/ workers'[w].torun = Drop(workers[w].torun, 1)]_vars

\* A stop reason is recorded and shutdown triggered while an item is in
\* flight, and a worker that reported ready and its collection after that
\* is not registered and has no item.
C15_Witness ==
    /\ shouldstop # "False"
    /\ shuttingdown
    /\ InFlight # <<>>
    /\ \E w \in 1..Len(workers) :
          /\ workers[w].phase = "collected"
          /\ ~HasNode(State, w)
          /\ workers[w].torun = <<>>
          /\ \A k \in 1..Len(sendlog) : sendlog[k].node # w

\* A step in which worker w leaves its run loop early and its finished
\* event, carrying a stop reason, is handled.
StopHandled(w) == workers[w].phase = "collected" /\ workers'[w].phase = "stopped"

\* C16: handling a finished event that carries a shouldfail or shouldstop
\* reason or the keyboard-interrupt exit status leaves a stop reason
\* recorded and the session shutting down, and is not handled as a crash:
\* the count of failed workers is unchanged and no worker is cloned.
C16_StopIsNotCrash ==
    [][\A w \in 1..Len(workers) :
          StopHandled(w) =>
             /\ shouldstop' # "False"
             /\ shuttingdown'
             /\ _failed_nodes_count' = _failed_nodes_count
             /\ cloned' = cloned]_vars

\* A step that handles the ready event of worker w while shutting down.
LateReady(w) ==
    workers[w].phase = "spawned" /\ workers'[w].phase = "ready" /\ shuttingdown

\* The workers that sendlog' has items for and sendlog has not yet.
SentTo == {sendlog'[k].node : k \in (Len(sendlog) + 1)..Len(sendlog')}

\* C17: a ready event handled while shutting down leaves the worker told to
\* shut down, unregistered and without an item; a worker that has reported
\* ready and is not registered is not registered later; and every item sent
\* goes to a worker registered before the step. So such a worker is never
\* sent an item.
C17_LateReadyUnregistered ==
    [][/\ \A w \in 1..Len(workers) :
            /\ LateReady(w) =>
                 /\ workers'[w].shutdown_sent
                 /\ ~HasNode(State', w)
                 /\ workers'[w].torun = <<>>
                 /\ \A k \in 1..Len(sendlog') : sendlog'[k].node # w
            /\ (workers[w].phase # "spawned" /\ ~HasNode(State, w))
                 => ~HasNode(State', w)
       /\ \A w \in SentTo : w <= Len(workers) /\ HasNode(State, w)]_vars

\* After items were sent, a worker reported ready while shutting down and
\* then its collection: shut down, unregistered, its collection not stored,
\* no item sent to it.
C17_Witness ==
    /\ shuttingdown
    /\ sendlog # <<>>
    /\ \E w \in 1..Len(workers) :
          /\ workers[w].phase = "collected"
          /\ w \in DOMAIN worker_status
          /\ worker_status[w] = "ready"
          /\ workers[w].shutdown_sent
          /\ ~HasNode(State, w)
          /\ workers[w].torun = <<>>
          /\ \A k \in 1..Len(sendlog) : sendlog[k].node # w

\* Worker w has been told to shut down and has run every item it received:
\* its finished event, without a stop reason, is the next it posts.
FinishDue(w) ==
    /\ Polling
    /\ workers[w].phase = "collected"
    /\ workers[w].shutdown_sent
    /\ workers[w].torun = <<>>

\* C18: a registered worker whose finished event without stop reason is
\* about to be handled holds no in-flight item, and the handler's assertion
\* on the crash item has not failed.
C18_FinishedHoldsNothing ==
    /\ exc # "AssertionError"
    /\ \A w \in 1..Len(workers) :
          (FinishDue(w) /\ HasNode(State, w)) => PendingOf(State, w) = <<>>

\* A worker that was sent items has finished and the finished handler has
\* removed it from the policy without raising.
C18_Witness ==
    /\ exc = "None"
    /\ \E w \in 1..Len(workers) :
          /\ workers[w].phase = "finished"
          /\ w \in DOMAIN worker_status
          /\ worker_status[w] = "finished"
          /\ ~HasNode(State, w)
          /\ \E k \in 1..Len(sendlog) : sendlog[k].node = w

\* The workers that have a collection stored.
Reporters == {node2collection[i].node : i \in 1..Len(node2collection)}

\* Collection complete, Global Pending empty and every registered worker
\* with at most one item in flight.
AllButLastDone ==
    /\ Cardinality(Reporters) >= numnodes
    /\ pending = <<>>
    /\ \A w \in 1..Len(workers) : HasNode(State, w) => Len(PendingOf(State, w)) <= 1

\* tests_finished is true exactly in the states described by
\* AllButLastDone, and after every handled event in which it is true the
\* session is shutting down.
FinishedStates ==
    /\ tests_finished(State) <=> AllButLastDone
    /\ (Ok(State) /\ tests_finished(State)) => shuttingdown

\* A step that enters shutting-down with no stop reason and no
\* restart-budget summary recorded (so through the tests_finished test of
\* loop_once) ends with Global Pending empty and no registered worker
\* holding two or more items.
ShutdownPath ==
    (~shuttingdown /\ shuttingdown'
       /\ shouldstop' = "False" /\ _summary_report' = "None")
      => /\ pending' = <<>>
         /\ \A i \in 1..Len(node2pending') : Len(node2pending'[i].pending) <= 1

\* C19: tests_finished is true exactly when the collection is complete,
\* Global Pending is empty and no registered worker holds more than one
\* item; the session is shutting down after every event in which it is
\* true; and shutting-down is never entered through it while Global Pending
\* is non-empty or a worker holds two or more items.
C19_TestsFinished == []FinishedStates /\ [][ShutdownPath]_vars

\* tests_finished holds with an item still in flight, and the session is
\* shutting down with no stop reason and no summary recorded.
C19_Witness ==
    /\ tests_finished(State)
    /\ shuttingdown
    /\ shouldstop = "False"
    /\ _summary_report = "None"
    /\ loop = "running"
    /\ \E w \in 1..Len(workers) : HasNode(State, w) /\ Len(PendingOf(State, w)) = 1

\* A step in which the collection report of worker w is handled.
ReportHandled(w) == workers[w].phase = "ready" /\ workers'[w].phase = "collected"

\* C20: the stored collections only grow, and only by the worker whose
\* report the step handles; a report handed to the policy before the
\* collection is complete is stored; collection_is_completed is true
\* exactly when the workers with a stored collection number at least
\* numnodes, which never changes; and once true it stays true.
C20_CollectionCompleted ==
    [][/\ numnodes' = numnodes
       /\ Reporters \subseteq Reporters'
       /\ \A w \in Reporters' \ Reporters : w <= Len(workers) /\ ReportHandled(w)
       /\ \A w \in 1..Len(workers) :
             (ReportHandled(w) /\ ~shuttingdown /\ ~collection_is_completed(State))
                => w \in Reporters'
       /\ collection_is_completed(State') <=> Cardinality(Reporters') >= numnodes
       /\ collection_is_completed(State) => collection_is_completed(State')]_vars

\* The collection is complete after a worker that had reported crashed, a
\* clone reported too, and a pool was recreated.
C20_Witness ==
    /\ collection_is_completed(State)
    /\ Cardinality(Reporters) > numnodes
    /\ \E w \in Reporters : workers[w].phase = "crashed" /\ ~HasNode(State, w)
    /\ Len(workers) > numnodes + cloned

\* The state in which worker_collectionfinish has stored the report of
\* worker w and is about to test collection_is_completed.
ReportState(w) ==
    add_node_collection(
        update_worker_status(
            [State EXCEPT !.workers[w].phase = "collected", !.workers[w].ids = ids],
            w, "collected"),
        w, ids)

\* The report of worker w is the one that makes schedule() build the groups.
FirstSchedule(w) ==
    /\ Polling
    /\ workers[w].phase = "ready"
    /\ ~shuttingdown
    /\ HasNode(State, w)
    /\ LET s == ReportState(w)
       IN  /\ Ok(s)
           /\ collection_is_completed(s)
           /\ s.collection_is_none
           /\ _check_nodes_have_same_collection(s)
           /\ s.node2collection[1].collection # <<>>

\* The state in which schedule() builds the groups: self.collection and
\* self.pending are set.
BuildState(w) ==
    LET s == ReportState(w)
        col == s.node2collection[1].collection
    IN  [s EXCEPT !.collection = col, !.collection_is_none = FALSE,
                  !.pending = PyRange(Len(col))]

\* What schedule() builds from the report of worker w.
Built(w) == build_groups(BuildState(w), 0, EmptyDict, <<>>)

\* The worker count a group key declares: its last token.
Declared(key) == DigitValue(key[Len(key)])

\* C21: the groups schedule() builds have a worker cap of min(declared
\* count, registered workers), the default group one of the number of
\* registered workers, and schedule() raises nothing.
C21_GroupWorkersClamped ==
    \A w \in 1..Len(workers) :
        FirstSchedule(w) =>
           LET registered == Len(ReportState(w).node2pending)
               built == Built(w).dist_groups
           IN  /\ \A key \in DOMAIN built :
                     built[key].group_workers =
                        IF key = DefaultGroup THEN registered
                        ELSE Min(Declared(key), registered)
               /\ Ok(schedule([ReportState(w) EXCEPT !.ready_to_run_tests = TRUE]))

\* The groups were built with fewer workers registered than a group
\* declares: the group's cap is the number that were registered.
C21_Witness ==
    /\ exc = "None"
    /\ sendlog # <<>>
    /\ \E key \in DOMAIN dist_groups :
          /\ key # DefaultGroup
          /\ dist_groups[key].group_workers < Declared(key)
          /\ dist_groups[key].group_workers \in {1, 2}

\* C22: when the loop finds the active set empty and no pool recreation
\* pending, its step triggers shutdown (every registered worker is told to
\* shut down) and raises the no-active-workers error; with a pool
\* recreation pending the error is not raised and the loop keeps running.
C22_NoActiveWorkers ==
    /\ [][(loop = "running" /\ _active_nodes = {} /\ ~remake_nodes) =>
            /\ loop' = "error"
            /\ exc' = "RuntimeError"
            /\ shuttingdown'
            /\ \A i \in 1..Len(node2pending') :
                  shutting_down(State', node2pending'[i].node)]_vars
    /\ [](exc = "RuntimeError" => ~remake_nodes)
    /\ []((loop = "running" /\ _active_nodes = {} /\ remake_nodes) => exc = "None")

\* The error was raised by a loop that was not shutting down before: the
\* workers still registered were told to shut down.
C22_Witness ==
    /\ exc = "RuntimeError"
    /\ loop = "error"
    /\ _active_nodes = {}
    /\ shuttingdown
    /\ node2pending # <<>>
    /\ shouldstop = "False"
    /\ _summary_report = "None"
    /\ ~tests_finished(State)

\* C23: once schedule() has adopted an empty Collection, nothing has been
\* sent and nothing is pending: Global Pending, the in-flight lists,
\* dist_groups and pending_groups are empty.
C23_EmptyCollection ==
    (~collection_is_none /\ collection = <<>>) =>
        /\ sendlog = <<>>
        /\ pending = <<>>
        /\ InFlight = <<>>
        /\ dist_groups = EmptyDict
        /\ pending_groups = <<>>
        /\ \A w \in 1..Len(workers) : workers[w].torun = <<>>

\* schedule() has adopted the empty Collection that two workers reported;
\* the handler raised nothing.
C23_Witness ==
    /\ ~collection_is_none
    /\ collection = <<>>
    /\ Len(node2collection) >= 2
    /\ \A i \in 1..Len(node2collection) : node2collection[i].collection = <<>>
    /\ node2pending # <<>>
    /\ exc = "None"

\* A step in which the internal-error event of worker w is handled.
ErrorHandled(w) == Alive(w) /\ workers'[w].phase = "failed"

\* C24: handling an internal-error event leaves the worker outside the
\* active set and outside the policy, clones no worker, leaves the count of
\* failed workers unchanged and reports the internal error.
C24_InternalErrorDrops ==
    [][\A w \in 1..Len(workers) :
          ErrorHandled(w) =>
             /\ w \notin _active_nodes'
             /\ ~HasNode(State', w)
             /\ cloned' = cloned
             /\ _failed_nodes_count' = _failed_nodes_count
             /\ internalerrors' = internalerrors + 1]_vars

\* C25: a step in which the count of failed reports reaches maxfail with
\* no stop reason recorded records one, and ends with shutdown triggered on
\* every registered worker and the interruption prepared; a loop that has
\* exited after a stop reason was recorded raises the interruption that
\* carries it.
C25_MaxFail ==
    /\ [][(maxfail # 0 /\ shouldstop = "False"
             /\ countfailures' = countfailures + 1 /\ countfailures' >= maxfail)
            => /\ shouldstop' = "stopping after failures"
               /\ shuttingdown'
               /\ \A i \in 1..Len(node2pending') :
                     shutting_down(State', node2pending'[i].node)
               /\ pending_exception' = shouldstop']_vars
    /\ []((loop # "running" /\ shouldstop # "False") =>
             (loop = "interrupted" /\ pending_exception = shouldstop))
    /\ []((maxfail # 0 /\ countfailures >= maxfail) => shouldstop # "False")

\* The second failed report reached a limit of two while an item was in
\* flight, and the loop exited with the interruption.
C25_Witness ==
    /\ maxfail = 2
    /\ countfailures = 2
    /\ shouldstop = "stopping after failures"
    /\ loop = "interrupted"
    /\ pending_exception = "stopping after failures"
    /\ completed # <<>>

\* The group an item identifier names: the tokens after its last "@",
\* "default" when it has none.
ExpectedGroup(item) ==
    IF "@" \notin Range(item) THEN DefaultGroup
    ELSE CHOOSE g \in {SubSeq(item, k, Len(item)) : k \in 2..(Len(item) + 1)} :
            "@" \notin Range(g) /\ item[Len(item) - Len(g)] = "@"

\* C26: in the groups schedule() builds from a non-empty Collection each
\* index is listed once, in the group its identifier names and in no
\* other; the keys of pending_groups are the groups built; and the indices
\* of all groups together are those of Global Pending.
C26_GroupsPartition ==
    \A w \in 1..Len(workers) :
        FirstSchedule(w) =>
           LET s == BuildState(w)
               built == Built(w)
               dg == built.dist_groups
           IN  /\ \A x \in 0..(Len(s.collection) - 1) :
                     /\ ExpectedGroup(s.collection[x + 1]) \in DOMAIN dg
                     /\ \A key \in DOMAIN dg :
                           Count(dg[key].test_indices, x) =
                              IF key = ExpectedGroup(s.collection[x + 1]) THEN 1 ELSE 0
               /\ \A key \in DOMAIN dg : dg[key].pending_indices = dg[key].test_indices
               /\ Range(built.keys) = DOMAIN dg
               /\ Len(built.keys) = Cardinality(DOMAIN dg)
               /\ UNION {Range(dg[key].test_indices) : key \in DOMAIN dg} = Range(s.pending)
               /\ Len(s.pending) = Cardinality(Range(s.pending))

\* The groups of the collection with the two-"@" identifier were built:
\* its item was sent as an item of group g_2, the default group waits.
C26_Witness ==
    /\ ids = ColNested
    /\ ~collection_is_none
    /\ exc = "None"
    /\ \E k \in 1..Len(sendlog) :
          sendlog[k].index = 0 /\ sendlog[k].group = <<"g", "_", "2">>
    /\ DefaultGroup \in DOMAIN dist_groups
    /\ dist_groups[DefaultGroup].test_indices = <<2>>

\* What this step sends, in the order sent.
SentNow == SubSeq(sendlog', Len(sendlog) + 1, Len(sendlog'))

\* The indices of the items of list col that name group key, in order.
GroupItems(col, key) ==
    SelectSeq(PyRange(Len(col)), LAMBDA x : ExpectedGroup(col[x + 1]) = key)

\* C27: the items a step sends are all the items of one group, in index
\* order, each by a send call of its own; with N the group's worker cap and
\* S the first N registered workers (all of them when fewer are
\* registered), the m-th item goes to worker m mod |S| of S, and the
\* numbers of items two workers of S receive differ by at most one.
C27_RoundRobin ==
    [][SentNow # <<>> =>
         LET E == SentNow
             key == E[1].group
             first_time == collection_is_none
             col == node2collection'[1].collection
             cap == IF ~first_time THEN dist_groups[key].group_workers
                    ELSE IF key = DefaultGroup THEN Len(node2pending)
                    ELSE Min(Declared(key), Len(node2pending))
             S == Take(nodes(State), cap)
             items == IF first_time THEN GroupItems(col, key)
                      ELSE dist_groups[key].test_indices
         IN  /\ \A m \in 1..Len(E) : E[m].group = key
             /\ [m \in 1..Len(E) |-> E[m].index] = items
             /\ items = GroupItems(col, key)
             /\ S # <<>>
             /\ \A m \in 0..(Len(E) - 1) :
                   /\ E[m + 1].node = S[(m % Len(S)) + 1]
                   /\ E[m + 1].call = Len(sendlog) + m
             /\ \A a, b \in Range(S) :
                   Cardinality({m \in 1..Len(E) : E[m].node = a})
                     - Cardinality({m \in 1..Len(E) : E[m].node = b}) \in {-1, 0, 1}
             /\ nodes(State') = nodes(State)]_vars

\* The three items of the group that declares three workers were sent to
\* the two registered workers: the first and the third to the same one.
C27_Witness ==
    /\ ids = ColWide
    /\ exc = "None"
    /\ \E k \in 1..(Len(sendlog) - 2) :
          /\ sendlog[k].group = <<"h", "_", "3">>
          /\ sendlog[k].index = 1
          /\ sendlog[k + 1].index = 2
          /\ sendlog[k + 2].index = 3
          /\ sendlog[k + 1].node # sendlog[k].node
          /\ sendlog[k + 2].node = sendlog[k].node

\* What may not change in a check_schedule call that does not come from
\* reschedule: what is scheduled, the Collection and the flag that lets
\* schedule() build the groups.
Frame(s) == <<Scheduled(s), s.collection, s.collection_is_none, s.is_first_time>>

\* The state in which the pytest_handlecrashitem hook runs when worker w
\* crashes: remove_node has returned the crash item.
CrashItemCall(w) == remove_node([State EXCEPT !.workers[w].phase = "crashed"], w)

\* C28: check_schedule called without from_dsession leaves Global Pending,
\* the groups, the in-flight lists and the Collection as they are and sends
\* nothing: between events, where mark_test_complete and remove_node call
\* it, in a schedule() call after the first, and in mark_test_pending
\* (which itself only puts the item's index at the head of Global Pending).
C28_CheckScheduleFrame ==
    /\ \A i \in 1..Len(node2pending) :
          LET s1 == check_schedule(State, node2pending[i].node, FALSE)
          IN  Ok(s1) /\ Frame(s1) = Frame(State)
    /\ \A w \in 1..Len(workers) :
          (CanRun(w) /\ HasNode(State, w)
             /\ Head(workers[w].torun) \in Range(PendingOf(State, w))) =>
              LET s1 == check_schedule(CompleteCall(w), w, FALSE)
              IN  Ok(s1) /\ Frame(s1) = Frame(CompleteCall(w))
    /\ \A w \in 1..Len(workers) :
          (Alive(w) /\ HasNode(State, w) /\ PendingOf(State, w) # <<>>) =>
              LET s1 == check_schedule_each(RemoveCall(w), nodes(RemoveCall(w)), 1)
              IN  Ok(s1) /\ Frame(s1) = Frame(RemoveCall(w))
    /\ (~collection_is_none /\ collection_is_completed(State)) =>
          LET s1 == schedule(State)
          IN  Ok(s1) /\ Frame(s1) = Frame(State)
    /\ \A w \in 1..Len(workers) :
          (Alive(w) /\ HasNode(State, w) /\ PendingOf(State, w) # <<>>) =>
              LET s0 == CrashItemCall(w)
                  put == [s0 EXCEPT !.pending =
                            <<IndexOf(s0.collection, s0.crashitem)>> \o @]
                  s1 == mark_test_pending(s0, s0.crashitem)
              IN  Ok(s1) /\ Frame(s1) = Frame(put)

\* Items are pending, a group waits, no worker holds two items and a
\* registered worker is not shutting down: a call from reschedule would
\* dispatch the group, a call from elsewhere leaves the state as it is.
C28_Witness ==
    /\ pending # <<>>
    /\ pending_groups # <<>>
    /\ sendlog # <<>>
    /\ \E i \in 1..Len(node2pending) :
          /\ ~shutting_down(State, node2pending[i].node)
          /\ check_schedule(State, node2pending[i].node, TRUE).sendlog # sendlog
          /\ check_schedule(State, node2pending[i].node, FALSE) = State

\* The workers of the pools before the current one: the pool recreation
\* forgot their status and they are not active.
PreviousPools == {w \in 1..Len(workers) : w \notin DOMAIN worker_status /\ w \notin _active_nodes}

C30_NoResetWhileResched ==
    /\ [](do_resched =>
            /\ ~remake_nodes
            /\ \A i \in 1..Len(node2pending) : node2pending[i].pending = <<>>
            /\ ~shuttingdown =>
                  \A w \in _active_nodes : ~workers[w].shutdown_sent)
    /\ [][(do_resched /\ do_resched') =>
            /\ ~remake_nodes'
            /\ \A w \in 1..Len(workers) :
                  (~workers[w].shutdown_sent /\ workers'[w].shutdown_sent)
                     => shuttingdown']_vars

\* After the pool was recreated with two workers one of them has reported
\* its collection and the other has not: both are registered, hold no item
\* and have not been told to shut down.
C30_Witness ==
    /\ do_resched
    /\ ~shuttingdown
    /\ Cardinality(_active_nodes) = 2
    /\ \A w \in _active_nodes :
          HasNode(State, w) /\ PendingOf(State, w) = <<>> /\ ~workers[w].shutdown_sent
    /\ \E w \in _active_nodes : workers[w].phase = "collected"
    /\ \E w \in _active_nodes : workers[w].phase = "ready"

\* C31: after a crashed worker was replaced, the loop is never left polling
\* with an empty active set and a pool recreation pending.  With an empty
\* active set no worker process is left to post an event, so such a state
\* lasts forever: the pool is never recreated and the next group never sent.
C31_RecreationHappens ==
    (cloned > 0 /\ loop = "running" /\ remake_nodes) => _active_nodes # {}

\* C32: every item a step sends goes to a worker that was not shutting
\* down when the step began (no shutdown requested, process not ended), and
\* is queued by that worker.
C32_NoSendToShuttingDown ==
    [][\A m \in 1..Len(SentNow) :
          /\ ~shutting_down(State, SentNow[m].node)
          /\ SentNow[m].index \in Range(workers'[SentNow[m].node].torun)]_vars

\* After a crashed worker was replaced and the replacement collected, the
\* next group was dispatched; the worker that received the item holds it,
\* and was told to shut down only afterwards (by the reset that followed).
C32_Witness ==
    /\ exc = "None"
    /\ cloned > 0
    /\ \E k \in 2..Len(sendlog) :
          /\ sendlog[k].group # sendlog[1].group
          /\ sendlog[k].index \in Range(workers[sendlog[k].node].torun)
          /\ workers[sendlog[k].node].phase = "collected"
          /\ workers[sendlog[k].node].shutdown_sent

\* C33: once shuttingdown is set, every handled event leaves it set.
\* worker_errordown clears the flag when it replaces a crashed worker, but
\* what set it (tests_finished, a stop reason, the exhausted restart budget)
\* still holds, and the tail of the same loop iteration sets it again.
C33_ShuttingDownAbsorbing ==
    [][shuttingdown => shuttingdown']_vars

\* The last item (index 3 of ColPair) was reported as a crash item and no
\* crash put anything back in Global Pending: the worker that crashed held
\* that item alone, so the event before the crash had found the tests
\* finished and set shuttingdown.  The crash was within the restart budget,
\* a replacement was cloned, and shuttingdown is set.
C33_Witness ==
    /\ ids = ColPair
    /\ requeued = <<>>
    /\ 3 \in Range(crashlog)
    /\ _failed_nodes_count <= _max_worker_restart
    /\ cloned >= 1
    /\ shuttingdown
    /\ loop = "running"

\* C34: a recorded stop reason is never cleared and never replaced by a
\* later one, and the interruption that ends the run carries it.
C34_StopReasonKept ==
    /\ [][shouldstop # "False" => shouldstop' = shouldstop]_vars
    /\ [](loop = "interrupted" => pending_exception = shouldstop)

\* C35: once the groups are built, pending_groups lists exactly the keys of
\* dist_groups (each once), every index listed in a pending group is in
\* Global Pending, and a pool recreation is pending only while some group is
\* pending.
C35_GroupsConsistent ==
    ~is_first_time =>
        /\ Range(pending_groups) = DOMAIN dist_groups
        /\ NoDup(pending_groups)
        /\ \A key \in DOMAIN dist_groups :
              Range(dist_groups[key].test_indices) \subseteq Range(pending)
        /\ remake_nodes => pending_groups # <<>>

====
